---------------------------- MODULE Spec2Model ----------------------------
(***************************************************************************)
(* Model of src/src/App.tsx: the App component's state and handlers, and   *)
(* the MathSurface component's function-to-geometry pipeline.              *)
(*                                                                         *)
(* JavaScript numbers are modelled as extended rationals <<n, d>> with     *)
(* d >= 0 in lowest terms: d > 0 is the finite number n/d, <<1,0>> is      *)
(* +Infinity, <<-1,0>> is -Infinity and <<0,0>> is NaN.  Arithmetic is     *)
(* exact: the rounding of IEEE doubles and of Float32Array stores, and the *)
(* sign of zero, are not modelled.                                         *)
(***************************************************************************)
EXTENDS Integers, Sequences, FiniteSets

VARIABLES
    mode,        \* App state `mode` / MathSurface prop `mode`
    equation,    \* App state `equation` (the active equation)
    inputValue,  \* App state `inputValue` (the text field)
    resolution,  \* App state `resolution` / MathSurface prop `resolution`
    error,       \* App state `error`
    trial,       \* the trial evaluation the last handler performed, if any
    evalResult,  \* what evaluate(equation, ...) yields at each sample index
    geometry,    \* the vertex buffers the useMemo of MathSurface returned
    deps,        \* the dependencies the useMemo last computed its value for
    phase        \* "app": App handlers; "props": MathSurface called, memo
                 \* not yet computed; "rendered": memo computed

vars == <<mode, equation, inputValue, resolution, error, trial, evalResult, geometry, deps, phase>>

appVars == <<mode, equation, inputValue, resolution, error, trial>>

pipeVars == <<evalResult, geometry, deps>>

-----------------------------------------------------------------------------
(* Bounds of the model *)

\* largest `resolution` prop a Curve run is given
MaxCurveRes == 5

\* largest `resolution` prop a Surface run is given
MaxGridRes == 2

\* largest `resolution` App passes when it re-renders MathSurface
MaxRenderRes == 4

-----------------------------------------------------------------------------
(* JavaScript numbers *)

Abs(n) == IF n < 0 THEN -n ELSE n

Sign(n) == IF n < 0 THEN -1 ELSE IF n > 0 THEN 1 ELSE 0

RECURSIVE GCD(_, _)
GCD(a, b) == IF b = 0 THEN a ELSE GCD(b, a % b)

\* the number n/d in canonical form
Norm(n, d) ==
    IF d = 0 THEN <<Sign(n), 0>>
    ELSE LET s == Sign(d)
             g == GCD(Abs(n), Abs(d))
         IN  <<(s * n) \div g, (s * d) \div g>>

Num(n) == <<n, 1>>

Zero == <<0, 1>>

One == <<1, 1>>

NaN == <<0, 0>>

Infinity == <<1, 0>>

NegInfinity == <<-1, 0>>

IsNaN(a) == a = NaN

\* the global isFinite
isFinite(a) == a[2] # 0

Neg(a) == <<-a[1], a[2]>>

Add(a, b) ==
    IF IsNaN(a) \/ IsNaN(b) THEN NaN
    ELSE IF ~isFinite(a) /\ ~isFinite(b) THEN (IF a = b THEN a ELSE NaN)
    ELSE Norm(a[1] * b[2] + b[1] * a[2], a[2] * b[2])

Sub(a, b) == Add(a, Neg(b))

Mul(a, b) == Norm(a[1] * b[1], a[2] * b[2])

Div(a, b) == Norm(a[1] * b[2] * (IF b[1] < 0 THEN -1 ELSE 1), a[2] * Abs(b[1]))

\* a < b
Less(a, b) ==
    IF IsNaN(a) \/ IsNaN(b) THEN FALSE
    ELSE IF ~isFinite(a) /\ ~isFinite(b) THEN a[1] < b[1]
    ELSE IF ~isFinite(a) THEN a[1] < 0
    ELSE IF ~isFinite(b) THEN b[1] > 0
    ELSE a[1] * b[2] < b[1] * a[2]

\* a !== b
StrictNotEqual(a, b) == IsNaN(a) \/ IsNaN(b) \/ a # b

\* Math.min(a, b)
MathMin(a, b) == IF IsNaN(a) \/ IsNaN(b) THEN NaN ELSE IF Less(b, a) THEN b ELSE a

\* Math.max(a, b)
MathMax(a, b) == IF IsNaN(a) \/ IsNaN(b) THEN NaN ELSE IF Less(a, b) THEN b ELSE a

\* a decimal literal: Dec(33, 100) is 0.33
Dec(n, d) == Norm(n, d)


-----------------------------------------------------------------------------
(* The App component: presets, evaluator, state and handlers *)

presetEquations2D ==
    << "sin(x)", "x^2", "exp(x/2)", "log(abs(x) + 1)", "abs(x)",
       "1 / (1 + exp(-x))", "exp(-x^2)", "x > 0 ? 1 : 0" >>

presetEquations3D ==
    << "sin(sqrt(x*x + y*y))", "cos(x) * cos(y)", "x*x - y*y", "(x*x + y*y) / 4",
       "sin(x) * cos(y)", "2 * exp(-(x*x + y*y)/8)", "x*y / 4",
       "sin(sqrt(x*x + y*y) + atan2(y, x))" >>

Range(s) == {s[i] : i \in DOMAIN s}

\* texts the user types that are in neither preset list: an unterminated
\* call, and a one-variable expression
TypedTexts == {"sin(x", "1/x"}

\* the texts the input field is given
InputTexts == Range(presetEquations2D) \cup Range(presetEquations3D) \cup TypedTexts

\* the parser of mathjs accepts the text
Parses(text) == text # "sin(x"

\* the symbols of the text other than functions and the constants e, pi
Symbols(text) ==
    IF text \in Range(presetEquations3D) THEN {"x", "y"} ELSE {"x"}

\* the names evaluate() is given a value for at lines 205, 207
TrialScope(m) == IF m = "2d" THEN {"x"} ELSE {"x", "y"}

\* evaluate(text, scope) of mathjs throws: a parse error, or a symbol that
\* the scope does not define
EvaluateThrows(text, scope) == ~Parses(text) \/ ~(Symbols(text) \subseteq scope)

NoTrial == [performed |-> FALSE, text |-> "", scope |-> {}, threw |-> FALSE]

Trial(text, scope) ==
    [performed |-> TRUE, text |-> text, scope |-> scope,
     threw |-> EvaluateThrows(text, scope)]

\* the range the slider's input element leaves its value in
SliderMin == 30

SliderMax == 150

\* positions the user drags the slider's thumb to, the ends of the track
\* and beyond them included
SliderPositions == {0, 29, SliderMin, 80, 149, SliderMax, 151, 200}

\* a range input that has no min attribute: its value starts at 0
RangeInputValue_NoMin(position) ==
    IF position < 0 THEN 0 ELSE IF position > SliderMax THEN SliderMax ELSE position

\* e.target.value of the input of type range with min 30, max 150 and the
\* default step 1: the element keeps its value a whole number in [min, max]
RangeInputValue(position) ==
    IF position < SliderMin THEN SliderMin
    ELSE IF position > SliderMax THEN SliderMax ELSE position

NotRendered == [positions |-> << >>, colors |-> << >>, isLine |-> FALSE]

\* the useMemo of a component that has not rendered yet holds no value
NoDeps == << >>

AppInit ==
    /\ mode = "3d"
    /\ equation = "sin(sqrt(x*x + y*y))"
    /\ inputValue = "sin(sqrt(x*x + y*y))"
    /\ resolution = 80
    /\ error = ""
    /\ trial = NoTrial
    /\ evalResult = << >>
    /\ geometry = NotRendered
    /\ deps = NoDeps
    /\ phase = "app"

\* onChange of the text field
setInputValue(text) ==
    /\ phase = "app"
    /\ inputValue' = text
    /\ trial' = NoTrial
    /\ UNCHANGED <<mode, equation, resolution, error, pipeVars, phase>>

\* a handleEquationUpdate that commits before the trial evaluation
handleEquationUpdate_CommitFirst ==
    /\ phase = "app"
    /\ trial' = Trial(inputValue, TrialScope(mode))
    /\ equation' = inputValue
    /\ error' = IF trial'.threw THEN "Invalid equation syntax" ELSE ""
    /\ UNCHANGED <<mode, inputValue, resolution, pipeVars, phase>>

\* a handleEquationUpdate whose trial binds x and y in both modes
handleEquationUpdate_OneScope ==
    /\ phase = "app"
    /\ trial' = Trial(inputValue, {"x", "y"})
    /\ IF trial'.threw
       THEN /\ error' = "Invalid equation syntax"
            /\ UNCHANGED equation
       ELSE /\ equation' = inputValue
            /\ error' = ""
    /\ UNCHANGED <<mode, inputValue, resolution, pipeVars, phase>>

\* Render
handleEquationUpdate ==
    /\ phase = "app"
    /\ trial' = Trial(inputValue, TrialScope(mode))
    /\ IF trial'.threw
       THEN /\ error' = "Invalid equation syntax"
            /\ UNCHANGED equation
       ELSE /\ equation' = inputValue
            /\ error' = ""
    /\ UNCHANGED <<mode, inputValue, resolution, pipeVars, phase>>

\* Reset View
resetView == handleEquationUpdate

\* the preset lists' buttons
currentPresets == IF mode = "2d" THEN presetEquations2D ELSE presetEquations3D

handlePresetSelect(presetEquation) ==
    /\ phase = "app"
    /\ inputValue' = presetEquation
    /\ equation' = presetEquation
    /\ error' = ""
    /\ trial' = NoTrial
    /\ UNCHANGED <<mode, resolution, pipeVars, phase>>

\* a toggleMode that changes the mode and keeps the equation
toggleMode_KeepEquation ==
    /\ phase = "app"
    /\ mode' = IF mode = "2d" THEN "3d" ELSE "2d"
    /\ trial' = NoTrial
    /\ UNCHANGED <<inputValue, equation, resolution, error, pipeVars, phase>>

toggleMode ==
    /\ phase = "app"
    /\ LET newMode == IF mode = "2d" THEN "3d" ELSE "2d"
       IN  /\ mode' = newMode
           /\ IF newMode = "2d"
              THEN /\ inputValue' = "sin(x)"
                   /\ equation' = "sin(x)"
              ELSE /\ inputValue' = "sin(sqrt(x*x + y*y))"
                   /\ equation' = "sin(sqrt(x*x + y*y))"
    /\ trial' = NoTrial
    /\ UNCHANGED <<resolution, error, pipeVars, phase>>

\* onChange of the resolution slider
setResolution(value) ==
    /\ phase = "app"
    /\ resolution' = value
    /\ trial' = NoTrial
    /\ UNCHANGED <<mode, equation, inputValue, error, pipeVars, phase>>

Next ==
    \/ \E text \in InputTexts : setInputValue(text)
    \/ handleEquationUpdate
    \/ resetView
    \/ \E i \in DOMAIN currentPresets : handlePresetSelect(currentPresets[i])
    \/ toggleMode
    \/ \E position \in SliderPositions : setResolution(RangeInputValue(position))

Spec == AppInit /\ [][Next]_vars

-----------------------------------------------------------------------------
(* The MathSurface component: the useMemo that builds the geometry *)

size == 6

\* what one call evaluate(equation, {x, ...}) of the sampling loops does:
\* it throws, or it returns a number
Threw == [threw |-> TRUE, value |-> NaN]

Returned(v) == [threw |-> FALSE, value |-> v]

\* a clamp that leaves out the lower bound
Clamp_NoLowerBound(v) == MathMin(Num(10), v)

\* Math.max(-10, Math.min(10, v))
Clamp(v) == MathMax(Num(-10), MathMin(Num(10), v))

\* a sampling formula that divides by points instead of points - 1
CurveX_DivByPoints(i, points) ==
    Add(Neg(Num(size)), Mul(Div(Num(i), Num(points)), Mul(Num(size), Num(2))))

\* x of the 2d loop's iteration i
CurveX(i, points) ==
    Add(Neg(Num(size)), Mul(Div(Num(i), Num(points - 1)), Mul(Num(size), Num(2))))

\* a value that skips the isFinite test
CurveY_NoFiniteTest(result) ==
    IF result.threw THEN Zero ELSE Clamp(result.value)

\* positions[i * 3 + 1] of the 2d loop: the try branch, or the catch branch
CurveY(result) ==
    IF result.threw THEN Zero
    ELSE IF isFinite(result.value) THEN Clamp(result.value) ELSE Zero

\* colors[i * 3 .. i * 3 + 2] of the 2d loop; the catch branch leaves the
\* zeros the Float32Array was created with
CurveColor(result) ==
    IF result.threw THEN <<Zero, Zero, Zero>>
    ELSE LET normalizedY == Div(Add(CurveY(result), Num(size)), Mul(Num(size), Num(2)))
         IN  << Add(Dec(2, 10), Mul(normalizedY, Dec(8, 10))),
                Add(Dec(2, 10), Mul(Sub(One, normalizedY), Dec(8, 10))),
                Dec(2, 10) >>

\* the 2d branch: i of the source runs over 0 .. points - 1
CurveGeometry(results, res) ==
    LET points == res
    IN  [positions |-> [k \in 1..points |-> <<CurveX(k - 1, points), CurveY(results[k]), Zero>>],
         colors    |-> [k \in 1..points |-> CurveColor(results[k])],
         isLine    |-> TRUE]

\* the vertices of new THREE.PlaneGeometry(size * 2, size * 2, res - 1, res - 1):
\* rows from y = size down to -size, each row from x = -size up to size
PlaneVertex(k, res) ==
    LET gridX == res - 1
        gridX1 == gridX + 1
        segment == Div(Mul(Num(size), Num(2)), Num(gridX))
        ix == (k - 1) % gridX1
        iy == (k - 1) \div gridX1
    IN  << Sub(Mul(Num(ix), segment), Num(size)),
           Neg(Sub(Mul(Num(iy), segment), Num(size))) >>

PlaneVertexCount(res) == IF res < 1 THEN 0 ELSE res * res

\* zValues[k] of the first 3d loop
SurfaceZ(result) ==
    IF result.threw THEN Zero
    ELSE IF isFinite(result.value) THEN Clamp(result.value) ELSE Zero

\* minZ after the first k iterations of the first 3d loop: the catch branch
\* leaves it alone
RECURSIVE MinZ(_, _)
MinZ(results, k) ==
    IF k = 0 THEN Infinity
    ELSE IF results[k].threw THEN MinZ(results, k - 1)
    ELSE MathMin(MinZ(results, k - 1), SurfaceZ(results[k]))

RECURSIVE MaxZ(_, _)
MaxZ(results, k) ==
    IF k = 0 THEN NegInfinity
    ELSE IF results[k].threw THEN MaxZ(results, k - 1)
    ELSE MathMax(MaxZ(results, k - 1), SurfaceZ(results[k]))

normalizedHeight(zValue, minZ, maxZ) ==
    IF StrictNotEqual(maxZ, minZ)
    THEN Div(Sub(zValue, minZ), Sub(maxZ, minZ))
    ELSE Dec(5, 10)

\* the three bands of the second 3d loop
SurfaceColor(h) ==
    IF Less(h, Dec(33, 100))
    THEN LET t == Div(h, Dec(33, 100))
         IN  << Add(Zero, Mul(t, Dec(4, 10))),
                Add(Dec(4, 10), Mul(t, Dec(6, 10))),
                Dec(9, 10) >>
    ELSE IF Less(h, Dec(66, 100))
    THEN LET t == Div(Sub(h, Dec(33, 100)), Dec(33, 100))
         IN  << Add(Dec(4, 10), Mul(t, Dec(5, 10))),
                Dec(9, 10),
                Sub(Dec(9, 10), Mul(t, Dec(6, 10))) >>
    ELSE LET t == Div(Sub(h, Dec(66, 100)), Dec(34, 100))
         IN  << Dec(9, 10),
                Sub(Dec(9, 10), Mul(t, Dec(6, 10))),
                Sub(Dec(3, 10), Mul(t, Dec(2, 10))) >>

\* normalizedHeight of vertex k in the second 3d loop
SurfaceHeight(results, n, k) ==
    normalizedHeight(SurfaceZ(results[k]), MinZ(results, n), MaxZ(results, n))

\* the 3d branch (the normals of computeVertexNormals are not modelled)
SurfaceGeometry(results, res) ==
    LET n == PlaneVertexCount(res)
        minZ == MinZ(results, n)
        maxZ == MaxZ(results, n)
    IN  [positions |-> [k \in 1..n |->
                          <<PlaneVertex(k, res)[1], PlaneVertex(k, res)[2], SurfaceZ(results[k])>>],
         colors    |-> [k \in 1..n |->
                          SurfaceColor(normalizedHeight(SurfaceZ(results[k]), minZ, maxZ))],
         isLine    |-> FALSE]

\* the number of calls of evaluate one run makes
SampleCount(m, res) == IF m = "2d" THEN res ELSE PlaneVertexCount(res)

\* the kinds of result one equation yields over the samples of a run.
\* Curve: a throw and both non-finite kinds beside a value; or a throw
\* beside values below, inside and above the clamp range
CurveResults ==
    { {Threw, Returned(NaN), Returned(Infinity), Returned(Dec(5, 2))},
      {Threw, Returned(Num(-12)), Returned(Dec(5, 2)), Returned(Num(12))} }

\* Surface: failures of both kinds beside a value; two values beside a
\* throw; or no throw at all
SurfaceResults ==
    { {Threw, Returned(NaN), Returned(Dec(5, 2))},
      {Threw, Returned(Dec(5, 2)), Returned(Num(12))},
      {Returned(NaN), Returned(Num(-12)), Returned(Num(12))} }

PipelineInit ==
    /\ phase = "props"
    /\ mode \in {"2d", "3d"}
    /\ resolution \in 0..(IF mode = "2d" THEN MaxCurveRes ELSE MaxGridRes)
    /\ \E results \in (IF mode = "2d" THEN CurveResults ELSE SurfaceResults) :
          evalResult \in [1..SampleCount(mode, resolution) -> results]
    /\ geometry = NotRendered
    /\ deps = NoDeps
    /\ equation = "sin(sqrt(x*x + y*y))"
    /\ inputValue = "sin(sqrt(x*x + y*y))"
    /\ error = ""
    /\ trial = NoTrial

\* a dependency array that leaves out the resolution
memoDeps_NoResolution == <<equation, mode>>

\* the dependency array of the useMemo
memoDeps == <<equation, resolution, mode>>

\* MathSurface renders with its current props: useMemo runs its callback
\* on the first render and whenever a dependency changed, and returns the
\* value it holds otherwise
MathSurface ==
    /\ phase = "props"
    /\ IF deps = memoDeps
       THEN UNCHANGED geometry
       ELSE geometry' = IF mode = "2d"
                        THEN CurveGeometry(evalResult, resolution)
                        ELSE SurfaceGeometry(evalResult, resolution)
    /\ deps' = memoDeps
    /\ phase' = "rendered"
    /\ UNCHANGED <<appVars, evalResult>>

PipelineNext == MathSurface

PipelineSpec == PipelineInit /\ [][PipelineNext]_vars

-----------------------------------------------------------------------------
(* MathSurface re-rendered by App with the props of line 436 *)

\* equations whose values are rational at rational coordinates
RenderEquations == {"x^2", "abs(x)", "1/x", "x*y / 4", "x*x - y*y"}

\* the value mathjs computes for the text at x, y
Value(text, x, y) ==
    CASE text = "x^2" -> Mul(x, x)
      [] text = "abs(x)" -> (IF Less(x, Zero) THEN Neg(x) ELSE x)
      [] text = "1/x" -> Div(One, x)
      [] text = "x*y / 4" -> Div(Mul(x, y), Num(4))
      [] text = "x*x - y*y" -> Sub(Mul(x, x), Mul(y, y))

\* evaluate(text, {x, e, pi}) of line 28 or evaluate(text, {x, y, e, pi})
\* of line 69
Evaluate(text, m, x, y) ==
    IF EvaluateThrows(text, TrialScope(m)) THEN Threw ELSE Returned(Value(text, x, y))

\* the results of the sampling loop of a run with these props
EvaluateSamples(text, res, m) ==
    [k \in 1..SampleCount(m, res) |->
        IF m = "2d" THEN Evaluate(text, m, CurveX(k - 1, res), Zero)
        ELSE Evaluate(text, m, PlaneVertex(k, res)[1], PlaneVertex(k, res)[2])]

\* the resolutions App passes, scaled down to the bound
RenderResolutions == 2..MaxRenderRes

RenderInit ==
    /\ phase = "props"
    /\ mode \in {"2d", "3d"}
    /\ equation \in RenderEquations
    /\ resolution \in RenderResolutions
    /\ evalResult = EvaluateSamples(equation, resolution, mode)
    /\ geometry = NotRendered
    /\ deps = NoDeps
    /\ inputValue = equation
    /\ error = ""
    /\ trial = NoTrial

\* App renders again and calls MathSurface with its state as props; the
\* buffers the renderer holds are those of the last completed render
AppRender(text, res, m) ==
    /\ phase = "rendered"
    /\ equation' = text
    /\ resolution' = res
    /\ mode' = m
    /\ evalResult' = EvaluateSamples(text, res, m)
    /\ phase' = "props"
    /\ UNCHANGED <<inputValue, error, trial, geometry, deps>>

RenderNext ==
    \/ \E text \in RenderEquations, res \in RenderResolutions, m \in {"2d", "3d"} :
          AppRender(text, res, m)
    \/ MathSurface

RenderSpec == RenderInit /\ [][RenderNext]_vars

-----------------------------------------------------------------------------
(* Claims about the App handlers, checked under Spec *)

\* C1: a Render whose trial evaluation throws leaves the active equation,
\* the mode and the resolution as they were and sets the error message to
\* 'Invalid equation syntax'.
C1_RejectedRenderChangesNothing ==
    [][(trial'.performed /\ trial'.threw) =>
          /\ equation' = equation
          /\ mode' = mode
          /\ resolution' = resolution
          /\ error' = "Invalid equation syntax"]_vars

\* a Render in 2d mode of a two-variable text was rejected, and the active
\* equation is still another one
C1_Witness ==
    /\ trial.performed /\ trial.threw
    /\ mode = "2d"
    /\ trial.text = "x*y / 4"
    /\ inputValue = "x*y / 4"
    /\ equation = "x^2"
    /\ resolution = 149
    /\ error # ""

\* a trial evaluation of the new active equation, at the representative
\* binding of the mode, was performed in the step and succeeded
TrialAccepted ==
    /\ trial'.performed
    /\ trial'.text = equation'
    /\ trial'.scope = TrialScope(mode')
    /\ ~trial'.threw

\* C2, as stated: whichever operation replaces the active equation, the
\* step performed a successful trial evaluation of the new expression at
\* the representative binding of the mode.
C2_EveryReplacementIsTrialled ==
    [][equation' # equation => TrialAccepted]_vars

\* C2, amended: the active equation is replaced either by a Render whose
\* trial evaluation of the new expression succeeded, or, with no trial
\* evaluation at all, by a preset of the mode the step ends in (a preset
\* button, or the default expression of a mode toggle).
C2_ReplacementIsTrialledOrBuiltIn ==
    [][equation' # equation =>
          \/ TrialAccepted
          \/ /\ ~trial'.performed
             /\ equation' \in Range(IF mode' = "2d" THEN presetEquations2D
                                                   ELSE presetEquations3D)]_vars

\* a typed text that is no preset became the active equation by a Render
C2_Witness ==
    /\ trial.performed /\ ~trial.threw
    /\ trial.text = "1/x"
    /\ trial.scope = {"x"}
    /\ mode = "2d"
    /\ equation = "1/x"

-----------------------------------------------------------------------------
(* Claims about the pipeline, checked under PipelineSpec *)

Rendered == phase = "rendered"

Vertices == DOMAIN geometry.positions

\* the value the run emitted for sample k: y of a Curve vertex, z of a
\* Surface vertex
EmittedValue(k) == geometry.positions[k][IF mode = "2d" THEN 2 ELSE 3]

Failed(result) == result.threw \/ ~isFinite(result.value)

\* a <= b
LessEq(a, b) == Less(a, b) \/ (~IsNaN(a) /\ a = b)

\* v saturated into [-10, 10]
Saturated(v) ==
    IF Less(v, Num(-10)) THEN Num(-10) ELSE IF Less(Num(10), v) THEN Num(10) ELSE v

\* C3: a run emits one vertex per coordinate; a coordinate whose evaluation
\* throws or is non-finite has value 0, and every other coordinate has the
\* clamp of its own result, whatever the other coordinates did.
C3_FailedSampleIsZeroOthersKept ==
    Rendered =>
        /\ Len(geometry.positions) =
               (IF mode = "2d" THEN resolution ELSE resolution * resolution)
        /\ Len(geometry.colors) = Len(geometry.positions)
        /\ \A k \in Vertices :
               EmittedValue(k) = IF Failed(evalResult[k]) THEN Zero
                                 ELSE Saturated(evalResult[k].value)

\* a Curve run of three samples: the first throws, the second is
\* non-finite, the third is emitted beside them
C3_Witness ==
    /\ Rendered
    /\ mode = "2d"
    /\ resolution = 3
    /\ evalResult = <<Threw, Returned(NaN), Returned(Dec(5, 2))>>
    /\ EmittedValue(1) = Zero
    /\ EmittedValue(2) = Zero
    /\ EmittedValue(3) = Dec(5, 2)

InUnitInterval(c) == LessEq(Zero, c) /\ LessEq(c, One)

\* C4: every colour channel of every vertex a run of resolution >= 2 emits
\* lies in [0, 1], in both modes.
C4_ColorChannelsInUnitInterval ==
    (Rendered /\ resolution >= 2) =>
        \A k \in DOMAIN geometry.colors :
            \A c \in 1..3 : InUnitInterval(geometry.colors[k][c])

\* the effective values of all samples of a Surface run
EffectiveValues == {SurfaceZ(evalResult[k]) : k \in 1..Len(evalResult)}

\* C5: in Surface mode the minimum and maximum used for normalisation are
\* those of the effective values of all samples, failed ones included, so
\* every normalizedHeight lies in [0, 1].
C5_MinMaxOverAllSamples ==
    (Rendered /\ mode = "3d" /\ resolution >= 2) =>
        LET n == Len(evalResult)
        IN  /\ MinZ(evalResult, n) \in EffectiveValues
            /\ MaxZ(evalResult, n) \in EffectiveValues
            /\ \A v \in EffectiveValues :
                   LessEq(MinZ(evalResult, n), v) /\ LessEq(v, MaxZ(evalResult, n))
            /\ \A k \in 1..n : InUnitInterval(SurfaceHeight(evalResult, n, k))

\* C6: in Surface mode, when all samples have the same effective value,
\* the normalizedHeight of every sample is 0.5.
C6_EqualSamplesGetMidpoint ==
    (Rendered /\ mode = "3d" /\ resolution >= 2 /\ Cardinality(EffectiveValues) = 1) =>
        \A k \in 1..Len(evalResult) :
            SurfaceHeight(evalResult, Len(evalResult), k) = Dec(1, 2)

\* the geometry of the run, had the evaluation of sample k given `result`
GeometryWith(k, result) ==
    LET results == [evalResult EXCEPT ![k] = result]
    IN  IF mode = "2d" THEN CurveGeometry(results, resolution)
        ELSE SurfaceGeometry(results, resolution)

\* C7: a sample that throws gets the vertex, position and colour, that it
\* gets when it returns a non-finite value and all other samples are the
\* same.
C7_ThrowHandledAsNonFinite ==
    (Rendered /\ resolution >= 2) =>
        \A k \in Vertices :
            evalResult[k].threw =>
                \A v \in {NaN, Infinity, NegInfinity} :
                    /\ geometry.positions[k] = GeometryWith(k, Returned(v)).positions[k]
                    /\ geometry.colors[k] = GeometryWith(k, Returned(v)).colors[k]

\* C8: every emitted value lies in [-10, 10]: a finite result below -10 is
\* emitted as -10, one above 10 as 10, one inside the range unchanged.
C8_EmittedValueClamped ==
    Rendered =>
        \A k \in Vertices :
            LET v == EmittedValue(k)
                r == evalResult[k]
            IN  /\ LessEq(Num(-10), v) /\ LessEq(v, Num(10))
                /\ (~Failed(r) /\ Less(r.value, Num(-10))) => v = Num(-10)
                /\ (~Failed(r) /\ Less(Num(10), r.value)) => v = Num(10)
                /\ (~Failed(r) /\ LessEq(Num(-10), r.value) /\ LessEq(r.value, Num(10)))
                       => v = r.value

\* a Surface run with results below, above and inside the range
C8_Witness ==
    /\ Rendered
    /\ mode = "3d"
    /\ resolution = 2
    /\ evalResult = <<Returned(Num(-12)), Returned(Num(12)), Returned(NaN), Returned(Num(12))>>
    /\ EmittedValue(1) = Num(-10)
    /\ EmittedValue(2) = Num(10)

\* C9: a run with a resolution below 2 behaves as one with resolution 2:
\* Curve mode emits the vertices at x = -6 and x = 6, and no emitted
\* coordinate is not-a-number.
C9_ResolutionBelowTwoIsTwo ==
    (Rendered /\ resolution < 2) =>
        /\ mode = "2d" =>
               /\ Len(geometry.positions) = 2
               /\ geometry.positions[1][1] = Num(-6)
               /\ geometry.positions[2][1] = Num(6)
        /\ \A k \in Vertices : \A c \in 1..3 : ~IsNaN(geometry.positions[k][c])

\* C10: for a resolution N >= 2 Curve mode emits N vertices, vertex i at
\* x = -6 + 12 i / (N - 1): the first at -6, the last at 6, and for N = 5
\* at -6, -3, 0, 3, 6.
C10_CurveSamplesSpanDomain ==
    (Rendered /\ mode = "2d" /\ resolution >= 2) =>
        LET N == resolution
            xs == [k \in 1..Len(geometry.positions) |-> geometry.positions[k][1]]
        IN  /\ Len(xs) = N
            /\ \A i \in 0..(N - 1) : xs[i + 1] = Norm(12 * i - 6 * (N - 1), N - 1)
            /\ xs[1] = Num(-6)
            /\ xs[N] = Num(6)
            /\ N = 5 => xs = <<Num(-6), Num(-3), Num(0), Num(3), Num(6)>>

\* the Curve run of resolution 5
C10_Witness ==
    /\ Rendered
    /\ mode = "2d"
    /\ resolution = 5
    /\ Len(geometry.positions) = 5
    /\ geometry.positions[2][1] = Num(-3)
    /\ geometry.positions[5][1] = Num(6)

-----------------------------------------------------------------------------
(* Claims about re-rendering, checked under RenderSpec *)

\* what one run of the pipeline emits for these props
PipelineOutput(text, res, m) ==
    IF m = "2d" THEN CurveGeometry(EvaluateSamples(text, res, m), res)
    ELSE SurfaceGeometry(EvaluateSamples(text, res, m), res)

\* C11: whenever a render has completed, the geometry handed to the
\* renderer is the whole pipeline output for the current equation,
\* resolution and mode: one vertex and one colour per sample, none of them
\* left from the geometry of earlier props.
C11_GeometryIsOutputOfCurrentProps ==
    phase = "rendered" =>
        /\ geometry = PipelineOutput(equation, resolution, mode)
        /\ Len(geometry.positions) = SampleCount(mode, resolution)
        /\ Len(geometry.colors) = SampleCount(mode, resolution)
        /\ geometry.isLine = (mode = "2d")

\* the Curve of x^2 at resolution 4, rendered by a useMemo that held a
\* Surface before: its y values are 10, 4, 4, 10
C11_Witness ==
    /\ phase = "rendered"
    /\ mode = "2d"
    /\ equation = "x^2"
    /\ resolution = 4
    /\ inputValue = "x*y / 4"
    /\ [k \in 1..4 |-> geometry.positions[k][2]] = <<Num(10), Num(4), Num(4), Num(10)>>

-----------------------------------------------------------------------------
(* Further claims about the App state, checked under Spec *)

\* C12: in every reachable state of App the resolution passed to the
\* pipeline is a whole number in [30, 150].
C12_ResolutionInSliderRange ==
    /\ resolution \in Int
    /\ SliderMin <= resolution
    /\ resolution <= SliderMax

\* the slider was dragged to its lower end (or below it) while an equation
\* rendered in 2d mode was active
C12_Witness ==
    /\ resolution = 30
    /\ mode = "2d"
    /\ equation = "1/x"
    /\ ~trial.performed

\* C13: in every reachable state of App the active equation passes the
\* trial evaluation of the current mode, with x bound in 2d and x and y in
\* 3d; a two-variable equation is never active in 2d mode.
C13_ActiveEquationPassesTrial ==
    /\ ~EvaluateThrows(equation, TrialScope(mode))
    /\ mode = "2d" => ~("y" \in Symbols(equation))

\* 2d mode entered by a toggle right after a Render was rejected in 3d
\* mode: the default one-variable equation is active
C13_Witness ==
    /\ mode = "2d"
    /\ equation = "sin(x)"
    /\ inputValue = "sin(x)"
    /\ ~trial.performed
    /\ error = "Invalid equation syntax"

\* C14: every step that replaces the active equation leaves the error
\* message empty.
C14_ReplacementClearsError ==
    [][equation' # equation => error' = ""]_vars

=============================================================================
